---- MODULE Spec2Model ----
(***************************************************************************)
(* Key/value caches of mindnlp/transformers/cache_utils.py: DynamicCache,  *)
(* SinkCache and StaticCache, as one state machine over one cache object.  *)
(*                                                                         *)
(* A tensor of shape [batch, heads, seq, head_dim] is a sequence over the  *)
(* batch axis of sequences over the seq axis of head_dim vectors of        *)
(* integers (the heads axis only ever broadcasts and is left out).  The    *)
(* entries of an incoming chunk are tagged with the layer index the caller *)
(* passed, the ordinal of the token among the tokens passed for that layer *)
(* and the batch row; the caches never look at the entries, except for the *)
(* RoPE re-rotation, which is computed on them exactly (rotations by       *)
(* multiples of a quarter turn, so cos and sin are in {-1, 0, 1}).         *)
(* Python's None is an empty sequence and a present value v is <<v>>.      *)
(***************************************************************************)
EXTENDS Integers, Sequences, FiniteSets, TLC

\* ---------------------------------------------------------------- bounds
Batch == 2
HeadDim == 4
window_length == 3
num_sink_tokens == 1
max_cache_len == 3
MaxFed == 4
MaxReorder == 1
MaxKeys == 4
MaxFiles == 4

\* The chunk lengths and the layer indices the caller passes.
MaxChunk == window_length - num_sink_tokens + 1
LayerIdx == {0, 1}
NumLayers == Cardinality(LayerIdx)

VARIABLES kind, key_cache, value_cache, seen_tokens, cos_sin_cache, fed, reorders, ret

\* The arguments of a shard_checkpoint call and the pair it returned.
VARIABLES state_dict, max_shard_size, weights_name, shards, index

\* The names of the files in the directory save_pretrained writes to.
VARIABLE save_directory

checkpoint == <<state_dict, max_shard_size, weights_name, shards, index, save_directory>>

\* The frame of BloomModel.forward: its position, its arguments and locals,
\* and how the last pass ended.
VARIABLE forward

vars == <<kind, key_cache, value_cache, seen_tokens, cos_sin_cache, fed, reorders, ret,
          state_dict, max_shard_size, weights_name, shards, index, save_directory, forward>>

\* ------------------------------------------------------- python helpers
None == << >>
Some(v) == <<v>>
IsNone(o) == Len(o) = 0

Max(a, b) == IF a >= b THEN a ELSE b
Min(a, b) == IF a <= b THEN a ELSE b

\* A slice bound i of a sequence of length n: negative counts from the end.
PyIndex(n, i) == IF i < 0 THEN Max(n + i, 0) ELSE Min(i, n)
\* s[start:], s[:stop], s[start:stop]
SliceFrom(s, start) == SubSeq(s, PyIndex(Len(s), start) + 1, Len(s))
SliceTo(s, stop) == SubSeq(s, 1, PyIndex(Len(s), stop))
Slice(s, start, stop) == SubSeq(s, PyIndex(Len(s), start) + 1, PyIndex(Len(s), stop))

\* ------------------------------------------------------- tensor helpers
\* t.shape[-2]
SeqLen(t) == Len(t[1])
\* ops.cat([a, b], axis=-2)
CatSeq(a, b) == [i \in 1 .. Len(a) |-> a[i] \o b[i]]
\* t[:, :, start:] and t[:, :, :stop]
SeqFrom(t, start) == [i \in 1 .. Len(t) |-> SliceFrom(t[i], start)]
SeqTo(t, stop) == [i \in 1 .. Len(t) |-> SliceTo(t[i], stop)]
\* t[..., :p] and t[..., p:]
DimTo(t, p) == [i \in 1 .. Len(t) |-> [j \in 1 .. Len(t[i]) |-> SliceTo(t[i][j], p)]]
DimFrom(t, p) == [i \in 1 .. Len(t) |-> [j \in 1 .. Len(t[i]) |-> SliceFrom(t[i][j], p)]]
\* ops.cat((a, b), axis=-1)
\* Mutant of CatDim: the second tensor comes first.
CatDimSwapped(a, b) == [i \in 1 .. Len(a) |-> [j \in 1 .. Len(a[i]) |-> b[i][j] \o a[i][j]]]

CatDim(a, b) == [i \in 1 .. Len(a) |-> [j \in 1 .. Len(a[i]) |-> a[i][j] \o b[i][j]]]
\* t.index_select(0, beam_idx)
IndexSelect0(t, beam_idx) == [i \in 1 .. Len(beam_idx) |-> t[beam_idx[i] + 1]]

\* The entries of the chunks the caller passes.
Tag(layer_idx, n, b) == 100 * (layer_idx + 1) + 10 * n + b
KeyVec(g) == [i \in 1 .. HeadDim |-> 10 * g + i]
ValueVec(g) == [i \in 1 .. HeadDim |-> 100000 + 10 * g + i]
\* key_states / value_states of c tokens for layer_idx, after n0 earlier tokens
KeyStates(layer_idx, n0, c) ==
    [b \in 1 .. Batch |-> [j \in 1 .. c |-> KeyVec(Tag(layer_idx, n0 + j, b))]]
ValueStates(layer_idx, n0, c) ==
    [b \in 1 .. Batch |-> [j \in 1 .. c |-> ValueVec(Tag(layer_idx, n0 + j, b))]]

\* The result of a call: the object after it, the error raised ("" for none)
\* and the value returned.
Return(self, out) == [self |-> self, raised |-> "", out |-> out]
Raise(self, error) == [self |-> self, raised |-> error, out |-> None]

\* ------------------------------------------------------------ DynamicCache
\* return self.key_cache[layer_idx], self.value_cache[layer_idx]
ReturnLayer(self, layer_idx) ==
    IF layer_idx < Len(self.key_cache)
    THEN Return(self, <<self.key_cache[layer_idx + 1], self.value_cache[layer_idx + 1]>>)
    ELSE Raise(self, "IndexError")

DynamicCacheInit ==
    [key_cache |-> << >>, value_cache |-> << >>, seen_tokens |-> 0, cos_sin_cache |-> << >>]

\* Mutant of DynamicCacheGetItem: the last layer is not to be had.
DynamicCacheGetItemShort(self, layer_idx) ==
    IF layer_idx < Len(self.key_cache) - 1
    THEN Return(self, <<self.key_cache[layer_idx + 1], self.value_cache[layer_idx + 1]>>)
    ELSE [self |-> self, raised |-> "KeyError",
          out |-> Some("Cache only has " \o ToString(Len(self.key_cache) - 1)
                       \o " layers, attempted to access layer with index "
                       \o ToString(layer_idx))]

\* DynamicCache.__getitem__; the message of the KeyError is in out.
DynamicCacheGetItem(self, layer_idx) ==
    IF layer_idx < Len(self.key_cache)
    THEN Return(self, <<self.key_cache[layer_idx + 1], self.value_cache[layer_idx + 1]>>)
    ELSE [self |-> self, raised |-> "KeyError",
          out |-> Some("Cache only has " \o ToString(Len(self.key_cache))
                       \o " layers, attempted to access layer with index "
                       \o ToString(layer_idx))]

\* Mutant of DynamicCacheUpdate: the tokens of every layer are counted as seen.
DynamicCacheUpdateCountsAll(self, key_states, value_states, layer_idx, cache_kwargs) ==
    LET s1 == [self EXCEPT !.seen_tokens = @ + SeqLen(key_states)]
        s2 == IF Len(s1.key_cache) <= layer_idx
              THEN [s1 EXCEPT !.key_cache = Append(@, key_states),
                              !.value_cache = Append(@, value_states)]
              ELSE [s1 EXCEPT !.key_cache[layer_idx + 1] = CatSeq(@, key_states),
                              !.value_cache[layer_idx + 1] = CatSeq(@, value_states)]
    IN  ReturnLayer(s2, layer_idx)

DynamicCacheUpdate(self, key_states, value_states, layer_idx, cache_kwargs) ==
    LET s1 == IF layer_idx = 0
              THEN [self EXCEPT !.seen_tokens = @ + SeqLen(key_states)]
              ELSE self
        s2 == IF Len(s1.key_cache) <= layer_idx
              THEN [s1 EXCEPT !.key_cache = Append(@, key_states),
                              !.value_cache = Append(@, value_states)]
              ELSE [s1 EXCEPT !.key_cache[layer_idx + 1] = CatSeq(@, key_states),
                              !.value_cache[layer_idx + 1] = CatSeq(@, value_states)]
    IN  ReturnLayer(s2, layer_idx)

DynamicCacheGetSeqLength(self, layer_idx) ==
    IF Len(self.key_cache) <= layer_idx
    THEN Return(self, 0)
    ELSE Return(self, SeqLen(self.key_cache[layer_idx + 1]))

DynamicCacheGetMaxLength(self) == Return(self, None)

\* Mutant of ReorderCache: only the keys are gathered.
ReorderCacheKeysOnly(self, beam_idx) ==
    Return([self EXCEPT
               !.key_cache = [l \in 1 .. Len(self.key_cache) |->
                                 IndexSelect0(self.key_cache[l], beam_idx)]],
           None)

\* DynamicCache.reorder_cache and SinkCache.reorder_cache (the same code)
ReorderCache(self, beam_idx) ==
    Return([self EXCEPT
               !.key_cache = [l \in 1 .. Len(self.key_cache) |->
                                 IndexSelect0(self.key_cache[l], beam_idx)],
               !.value_cache = [l \in 1 .. Len(self.key_cache) |->
                                   IndexSelect0(self.value_cache[l], beam_idx)]],
           None)

\* Mutant of ToLegacyCache: the pair is built as (value, key).
ToLegacyCacheSwapped(self) ==
    [layer_idx \in 1 .. Len(self.key_cache) |->
        <<self.value_cache[layer_idx], self.key_cache[layer_idx]>>]

ToLegacyCache(self) ==
    [layer_idx \in 1 .. Len(self.key_cache) |->
        <<self.key_cache[layer_idx], self.value_cache[layer_idx]>>]

RECURSIVE FromLegacyLoop(_, _, _)
FromLegacyLoop(cache, past_key_values, layer_idx) ==
    IF layer_idx >= Len(past_key_values)
    THEN cache
    ELSE FromLegacyLoop(
             DynamicCacheUpdate(cache, past_key_values[layer_idx + 1][1],
                                past_key_values[layer_idx + 1][2], layer_idx, None).self,
             past_key_values, layer_idx + 1)

\* past_key_values is None or <<the tuple of (key, value) pairs>>
FromLegacyCache(past_key_values) ==
    IF IsNone(past_key_values)
    THEN DynamicCacheInit
    ELSE FromLegacyLoop(DynamicCacheInit, past_key_values[1], 0)

\* --------------------------------------------------------------- SinkCache
\* x1 = x[..., : d // 2]; x2 = x[..., d // 2 :]; cat((-x2, x1)), on one vector
RotateHalf(x) ==
    LET h == Len(x) \div 2
        n2 == Len(x) - h
    IN  [i \in 1 .. Len(x) |-> IF i <= n2 THEN 0 - x[h + i] ELSE x[i - n2]]

\* Broadcasting of the seq axis of the keys (n rows) against the rows of the
\* rerotation table (m rows): the common length, or -1 when the shapes clash.
BroadcastLen(n, m) == IF n = m THEN n ELSE IF n = 1 THEN m ELSE IF m = 1 THEN n ELSE 0 - 1

\* (key_states * cos) + (rotate_half(key_states) * sin); cos and sin hold one
\* number per position, the same for every component of the head dimension.
ApplyKeyRotaryPosEmb(key_states, cos, sin) ==
    LET n == SeqLen(key_states)
        m == Len(cos)
    IN  [b \in 1 .. Len(key_states) |->
            [j \in 1 .. BroadcastLen(n, m) |->
                LET x == key_states[b][IF n = 1 THEN 1 ELSE j]
                    c == cos[IF m = 1 THEN 1 ELSE j]
                    s == sin[IF m = 1 THEN 1 ELSE j]
                IN  [i \in 1 .. Len(x) |-> x[i] * c + RotateHalf(x)[i] * s]]]

\* Mutant of GetRerotationCosSin: the pair is computed and stored on every call.
GetRerotationCosSinAlways(self, key_states, cos, sin) ==
    LET c == SeqLen(key_states)
        original_cos == SliceFrom(cos, num_sink_tokens + c)
        shifted_cos == Slice(cos, num_sink_tokens, 0 - c)
        original_sin == SliceFrom(sin, num_sink_tokens + c)
        shifted_sin == Slice(sin, num_sink_tokens, 0 - c)
        rerotation_cos == [i \in 1 .. Len(original_cos) |->
                              original_cos[i] * shifted_cos[i] + original_sin[i] * shifted_sin[i]]
        rerotation_sin == [i \in 1 .. Len(original_cos) |->
                              (0 - original_sin[i]) * shifted_cos[i] + original_cos[i] * shifted_sin[i]]
        memo == (c :> <<rerotation_cos, rerotation_sin>>) @@ self.cos_sin_cache
    IN  [self |-> [self EXCEPT !.cos_sin_cache = memo], cos |-> memo[c][1], sin |-> memo[c][2]]

\* The memo after the call and the pair returned.
GetRerotationCosSin(self, key_states, cos, sin) ==
    LET c == SeqLen(key_states)
        original_cos == SliceFrom(cos, num_sink_tokens + c)
        shifted_cos == Slice(cos, num_sink_tokens, 0 - c)
        original_sin == SliceFrom(sin, num_sink_tokens + c)
        shifted_sin == Slice(sin, num_sink_tokens, 0 - c)
        rerotation_cos == [i \in 1 .. Len(original_cos) |->
                              original_cos[i] * shifted_cos[i] + original_sin[i] * shifted_sin[i]]
        rerotation_sin == [i \in 1 .. Len(original_cos) |->
                              (0 - original_sin[i]) * shifted_cos[i] + original_cos[i] * shifted_sin[i]]
        memo == IF c \in DOMAIN self.cos_sin_cache
                THEN self.cos_sin_cache
                ELSE (c :> <<rerotation_cos, rerotation_sin>>) @@ self.cos_sin_cache
    IN  [self |-> [self EXCEPT !.cos_sin_cache = memo], cos |-> memo[c][1], sin |-> memo[c][2]]

SinkCacheGetSeqLength(self, layer_idx) ==
    IF Len(self.key_cache) <= layer_idx
    THEN Return(self, 0)
    ELSE Return(self, SeqLen(self.key_cache[layer_idx + 1]))

\* Mutant of SinkCacheGetMaxLength: the room left in the window of layer 0.
SinkCacheGetMaxLengthLeft(self) ==
    Return(self, Some(window_length - SinkCacheGetSeqLength(self, 0).out))

SinkCacheGetMaxLength(self) == Return(self, Some(window_length))

\* Mutant of SinkTokens: the slice starts one position late.
SinkTokensOffByOne(t) == Slice(t, 1, num_sink_tokens + 1)

\* sink_keys / sink_values
SinkTokens(t) == SeqTo(t, num_sink_tokens)

\* Mutant of KeptTail: the slice starts one position late.
KeptTailLate(t, c) == SeqFrom(t, 0 - window_length + num_sink_tokens + c + 1)

\* keys_to_keep (before the re-rotation) / values_to_keep, for a chunk of c tokens
KeptTail(t, c) == SeqFrom(t, 0 - window_length + num_sink_tokens + c)

\* The "Shifting cache" branch of SinkCache.update, entered with seen_tokens
\* already updated in self.
SinkCacheShift(self, key_states, value_states, layer_idx, kw) ==
    LET using_rope == ~IsNone(kw.cos) /\ ~IsNone(kw.sin)
        partial == ~IsNone(kw.partial_rotation_size)
        old_keys == self.key_cache[layer_idx + 1]
        old_values == self.value_cache[layer_idx + 1]
        kept == KeptTail(old_keys, SeqLen(key_states))
        rr == GetRerotationCosSin(self, key_states,
                                  SliceTo(kw.cos[1], window_length),
                                  SliceTo(kw.sin[1], window_length))
        s1 == IF using_rope THEN rr.self ELSE self
        to_rotate == IF partial THEN DimTo(kept, kw.partial_rotation_size[1]) ELSE kept
        keys_pass == DimFrom(kept, kw.partial_rotation_size[1])
        rotated == ApplyKeyRotaryPosEmb(to_rotate, rr.cos, rr.sin)
        keys_to_keep == IF ~using_rope THEN kept
                        ELSE IF partial THEN CatDim(rotated, keys_pass)
                        ELSE rotated
        sink_keys == SinkTokens(old_keys)
        sink_values == SinkTokens(old_values)
        values_to_keep == KeptTail(old_values, SeqLen(value_states))
    IN  IF using_rope /\ BroadcastLen(SeqLen(to_rotate), Len(rr.cos)) < 0
        THEN Raise(s1, "ValueError")       \* the shapes of keys and table clash
        ELSE IF using_rope /\ partial /\ SeqLen(rotated) # SeqLen(keys_pass)
        THEN Raise(s1, "ValueError")       \* ops.cat of different seq lengths
        ELSE ReturnLayer(
                 [s1 EXCEPT
                     !.key_cache[layer_idx + 1] =
                         CatSeq(CatSeq(sink_keys, keys_to_keep), key_states),
                     !.value_cache[layer_idx + 1] =
                         CatSeq(CatSeq(sink_values, values_to_keep), value_states)],
                 layer_idx)

SinkCacheUpdate(self, key_states, value_states, layer_idx, cache_kwargs) ==
    IF IsNone(cache_kwargs)
    THEN Raise(self, "AttributeError")     \* None has no attribute get
    ELSE
    LET s1 == IF layer_idx = 0
              THEN [self EXCEPT !.seen_tokens = @ + SeqLen(key_states)]
              ELSE self
    IN  IF Len(self.key_cache) <= layer_idx
        THEN ReturnLayer([s1 EXCEPT !.key_cache = Append(@, key_states),
                                    !.value_cache = Append(@, value_states)],
                         layer_idx)
        ELSE IF SeqLen(key_states) + SinkCacheGetSeqLength(self, layer_idx).out < window_length
        THEN ReturnLayer(
                 [s1 EXCEPT !.key_cache[layer_idx + 1] = CatSeq(@, key_states),
                            !.value_cache[layer_idx + 1] = CatSeq(@, value_states)],
                 layer_idx)
        ELSE SinkCacheShift(s1, key_states, value_states, layer_idx, cache_kwargs[1])

\* Mutant of CacheGetUsableLength: the size limit is forgotten.
CacheGetUsableLengthNoLimit(self, max_length, previous_seq_length, new_seq_length) ==
    Return(self, previous_seq_length)

\* Mutant of CacheGetUsableLength: a cache with a size limit answers with the
\* room the new tokens leave, whatever it holds.
CacheGetUsableLengthRoom(self, max_length, previous_seq_length, new_seq_length) ==
    IF ~IsNone(max_length)
    THEN Return(self, max_length[1] - new_seq_length)
    ELSE Return(self, previous_seq_length)

\* Cache.get_usable_length, inherited by DynamicCache and SinkCache;
\* max_length and previous_seq_length are what get_max_length() and
\* get_seq_length(layer_idx) returned.
CacheGetUsableLength(self, max_length, previous_seq_length, new_seq_length) ==
    IF ~IsNone(max_length) /\ previous_seq_length + new_seq_length > max_length[1]
    THEN Return(self, max_length[1] - new_seq_length)
    ELSE Return(self, previous_seq_length)

\* ------------------------------------------------------------- StaticCache
ZeroVec == [i \in 1 .. HeadDim |-> 0]

StaticCacheInit ==
    [key_cache |-> [b \in 1 .. Batch |-> [p \in 1 .. max_cache_len |-> ZeroVec]],
     value_cache |-> [b \in 1 .. Batch |-> [p \in 1 .. max_cache_len |-> ZeroVec]],
     seen_tokens |-> 0, cos_sin_cache |-> << >>]

\* Mutant of IndexAssign: positions is taken as the first slot of a contiguous
\* range.
IndexAssignRange(t, positions, states) ==
    [b \in 1 .. Len(t) |->
        [p \in 1 .. Len(t[b]) |->
            IF p - 1 >= positions[1] /\ p - 1 < positions[1] + Len(positions)
            THEN states[b][p - positions[1]]
            ELSE t[b][p]]]

\* t[:, :, positions] = states, the last write winning
IndexAssign(t, positions, states) ==
    [b \in 1 .. Len(t) |->
        [p \in 1 .. Len(t[b]) |->
            LET hits == {q \in 1 .. Len(positions) : positions[q] = p - 1}
            IN  IF hits = {} THEN t[b][p]
                ELSE states[b][CHOOSE q \in hits : \A r \in hits : r <= q]]]

\* Mutant of StaticCacheUpdate: only the update of layer 0 writes the key
\* buffer.
StaticCacheUpdateLayer0(self, key_states, value_states, layer_idx, cache_kwargs) ==
    IF IsNone(cache_kwargs)
    THEN Raise(self, "AttributeError")
    ELSE
    LET new_cache_positions == cache_kwargs[1].cache_position
        s1 == [self EXCEPT
                  !.key_cache = IF layer_idx = 0
                                THEN IndexAssign(@, new_cache_positions, key_states)
                                ELSE @,
                  !.value_cache = IndexAssign(@, new_cache_positions, value_states)]
    IN  Return(s1, <<s1.key_cache, s1.value_cache>>)

StaticCacheUpdate(self, key_states, value_states, layer_idx, cache_kwargs) ==
    IF IsNone(cache_kwargs)
    THEN Raise(self, "AttributeError")
    ELSE
    LET new_cache_positions == cache_kwargs[1].cache_position
        s1 == [self EXCEPT
                  !.key_cache = IndexAssign(@, new_cache_positions, key_states),
                  !.value_cache = IndexAssign(@, new_cache_positions, value_states)]
    IN  Return(s1, <<s1.key_cache, s1.value_cache>>)

\* Mutant of StaticCacheGetSeqLength: the buffer's length is returned.
StaticCacheGetSeqLengthOfBuffer(self, layer_idx) == Return(self, SeqLen(self.key_cache))

StaticCacheGetSeqLength(self, layer_idx) == Raise(self, "ValueError")

StaticCacheGetUsableLength(self, new_sequence_length, layer_idx) == Raise(self, "ValueError")

StaticCacheGetMaxLength(self) == Return(self, Some(max_cache_len))

\* to_legacy_cache of a StaticCache
StaticCacheToLegacyCache(self) == Return(self, None)

StaticCacheReorderCache(self, beam_idx) ==
    Return([self EXCEPT !.key_cache = IndexSelect0(@, beam_idx),
                        !.value_cache = IndexSelect0(@, beam_idx)],
           None)

\* -------------------------------------------------------- shard_checkpoint
\* A file name is the sequence of its parts between dots.
WEIGHTS_NAME == <<"mindspore", "ckpt">>

\* splits[:-1] + [variant] + splits[-1:]
AddVariant(name, variant) ==
    IF IsNone(variant) THEN name
    ELSE SliceTo(name, 0 - 1) \o <<variant[1]>> \o SliceFrom(name, 0 - 1)

\* dtype_byte_size of the dtypes whose name ends in a number of bits
DtypeByteSize(dtype) ==
    CASE dtype = "float16" -> 16 \div 8
      [] dtype = "float32" -> 32 \div 8
      [] dtype = "int8" -> 8 \div 8

\* weight.numel() * dtype_byte_size(weight.dtype)
WeightSize(weight) == weight.numel * DtypeByteSize(weight.dtype)

\* f"{n:05d}"
Fmt05d(n) ==
    IF n < 10 THEN "0000" \o ToString(n)
    ELSE IF n < 100 THEN "000" \o ToString(n)
    ELSE IF n < 1000 THEN "00" \o ToString(n)
    ELSE IF n < 10000 THEN "0" \o ToString(n)
    ELSE ToString(n)

\* name.replace(".ckpt", suffix + ".ckpt"), for a name none of whose parts
\* merely begins with "ckpt": the suffix goes to the end of every part that a
\* part "ckpt" follows.
ReplaceCkpt(name, suffix) ==
    [i \in 1 .. Len(name) |->
        IF i < Len(name) /\ name[i + 1] = "ckpt" THEN name[i] \o suffix ELSE name[i]]

\* weights_name.replace(".ckpt", f"-{idx+1:05d}-of-{len(sharded_state_dicts):05d}.ckpt")
ShardFile(name, idx, n) ==
    ReplaceCkpt(name, "-" \o Fmt05d(idx + 1) \o "-of-" \o Fmt05d(n))

\* Mutant of TipsOver: the size of the current shard is forgotten.
TipsOverAlone(last_block_size, weight_size, max_size, last_shard) ==
    weight_size > max_size /\ Len(last_shard) > 0

\* last_block_size + weight_size > max_shard_size and len(sharded_state_dicts[-1]) > 0
TipsOver(last_block_size, weight_size, max_size, last_shard) ==
    last_block_size + weight_size > max_size /\ Len(last_shard) > 0

\* One turn of the loop over state_dict.items(); the key of the i-th item is
\* i, a shard is the sequence of its keys in the order they were put in, and
\* blocks are numbered from 0.
ShardStep(st, key, weight, max_size) ==
    IF weight.type = "str" THEN st
    ELSE IF weight.id \in DOMAIN st.storage_id_to_block
    THEN [st EXCEPT !.sharded_state_dicts[st.storage_id_to_block[weight.id] + 1] =
                        Append(@, key)]
    ELSE
    LET weight_size == WeightSize(weight)
        n == Len(st.sharded_state_dicts)
        split == TipsOver(st.last_block_size, weight_size, max_size,
                          st.sharded_state_dicts[n])
        dicts == IF split THEN Append(st.sharded_state_dicts, << >>)
                 ELSE st.sharded_state_dicts
        last_block_size == IF split THEN 0 ELSE st.last_block_size
    IN  [sharded_state_dicts |-> [dicts EXCEPT ![Len(dicts)] = Append(@, key)],
         last_block_size |-> last_block_size + weight_size,
         total_size |-> st.total_size + weight_size,
         storage_id_to_block |-> (weight.id :> (Len(dicts) - 1)) @@ st.storage_id_to_block]

RECURSIVE ShardLoop(_, _, _, _)
ShardLoop(st, sd, key, max_size) ==
    IF key > Len(sd) THEN st
    ELSE ShardLoop(ShardStep(st, key, sd[key], max_size), sd, key + 1, max_size)

\* shard_checkpoint(state_dict, max_shard_size, weights_name), max_shard_size
\* a number of bytes: the pair (shards, index).  shards maps a file name to
\* the shard stored under it, the last one written under that name.
ShardCheckpoint(sd, max_size, name) ==
    LET st == ShardLoop([sharded_state_dicts |-> << << >> >>, last_block_size |-> 0,
                         total_size |-> 0, storage_id_to_block |-> << >>],
                        sd, 1, max_size)
        dicts == st.sharded_state_dicts
        n == Len(dicts)
        files == {ShardFile(name, idx, n) : idx \in 0 .. n - 1}
        last(f) == CHOOSE idx \in 0 .. n - 1 :
                       /\ ShardFile(name, idx, n) = f
                       /\ \A other \in 0 .. n - 1 : ShardFile(name, other, n) = f => other <= idx
        keys == UNION {{dicts[b][k] : k \in 1 .. Len(dicts[b])} : b \in 1 .. n}
        block(key) == CHOOSE b \in 1 .. n : \E k \in 1 .. Len(dicts[b]) : dicts[b][k] = key
    IN  IF n = 1
        THEN <<[f \in {name} |-> dicts[1]], None>>
        ELSE <<[f \in files |-> dicts[last(f) + 1]],
               Some([metadata |-> [total_size |-> st.total_size],
                     weight_map |-> [key \in keys |-> ShardFile(name, block(key) - 1, n)]])>>

\* The state dicts of up to MaxKeys items: an item is a string, a tensor of
\* its own, or a tensor an earlier key holds already.
Tensors ==
    {[numel |-> 1, dtype |-> "float16"], [numel |-> 3, dtype |-> "float16"],
     [numel |-> 3, dtype |-> "float32"]}

StrWeight == [type |-> "str", id |-> 0, numel |-> 0, dtype |-> ""]

NextWeights(sd) ==
    {StrWeight}
    \cup {[type |-> "Tensor", id |-> Len(sd) + 1, numel |-> x.numel, dtype |-> x.dtype] :
              x \in Tensors}
    \cup {sd[j] : j \in {i \in 1 .. Len(sd) : sd[i].type = "Tensor"}}

RECURSIVE StateDictsOfLen(_)
StateDictsOfLen(n) ==
    IF n = 0 THEN {<< >>}
    ELSE UNION {{sd \o <<w>> : w \in NextWeights(sd)} : sd \in StateDictsOfLen(n - 1)}

StateDicts == UNION {StateDictsOfLen(n) : n \in 0 .. MaxKeys}

MaxShardSizes == {10}

WeightsNames ==
    {AddVariant(WEIGHTS_NAME, None), AddVariant(WEIGHTS_NAME, Some("fp16")),
     <<"pytorch_model", "bin">>}

\* ---------------------------------------------------------- save_pretrained
WEIGHTS_INDEX_NAME == <<"mindspore", "ckpt", "index", "json">>
CONFIG_NAME == <<"config", "json">>
GENERATION_CONFIG_NAME == <<"generation_config", "json">>

\* The file name as a string: ".".join(name)
RECURSIVE Join(_)
Join(name) ==
    IF Len(name) = 0 THEN ""
    ELSE IF Len(name) = 1 THEN name[1]
    ELSE name[1] \o "." \o Join(Tail(name))

\* s.replace(old, ""): the occurrences of old are taken out from the left
RECURSIVE StrRemove(_, _)
StrRemove(s, old) ==
    IF Len(s) < Len(old) THEN s
    ELSE IF SubSeq(s, 1, Len(old)) = old
    THEN StrRemove(SubSeq(s, Len(old) + 1, Len(s)), old)
    ELSE SubSeq(s, 1, 1) \o StrRemove(SubSeq(s, 2, Len(s)), old)

\* s.startswith(prefix)
StartsWith(s, prefix) == Len(prefix) <= Len(s) /\ SubSeq(s, 1, Len(prefix)) = prefix

\* the five characters of s from position i on are decimal digits
Digits5(s, i) ==
    \A k \in i .. i + 4 :
        SubSeq(s, k, k) \in {"0", "1", "2", "3", "4", "5", "6", "7", "8", "9"}

\* re.compile(r"(.*?)-\d{5}-of-\d{5}").fullmatch(s) is not None
RegFullMatch(s) ==
    LET n == Len(s)
    IN  /\ n >= 15
        /\ SubSeq(s, n - 14, n - 14) = "-"
        /\ Digits5(s, n - 13)
        /\ SubSeq(s, n - 8, n - 5) = "-of-"
        /\ Digits5(s, n - 4)

\* Mutant of NoSuffix: the suffix of the checkpoint files is taken off too.
NoSuffixCkpt(s) == StrRemove(StrRemove(StrRemove(s, ".bin"), ".safetensors"), ".ckpt")

\* s.replace(".bin", "").replace(".safetensors", "")
NoSuffix(s) == StrRemove(StrRemove(s, ".bin"), ".safetensors")

\* The condition under which the loop over os.listdir(save_directory) removes
\* filename; every entry of the directory is a file.
Removes(filename, name, new_shards, is_main_process) ==
    /\ StartsWith(Join(filename), NoSuffix(Join(name)))
    /\ filename \notin DOMAIN new_shards
    /\ is_main_process
    /\ RegFullMatch(NoSuffix(Join(filename)))

\* The state dicts saved: n tensors of 3 float16 numbers, each of its own.
SaveStateDicts ==
    {[i \in 1 .. n |-> [type |-> "Tensor", id |-> i, numel |-> 3, dtype |-> "float16"]] :
        n \in 0 .. MaxKeys}

\* max_shard_size in bytes: one of those tensors to a shard, or all in one.
SaveShardSizes == {10, 100}

Variants == {None, Some("fp16")}

\* Files a directory may hold before the first save.
OtherFiles == {<<"mindspore", "ckpt-00001-of-00002">>, <<"README", "md">>}

\* ------------------------------------------------------------- the caller
\* cos and sin of k quarter turns
Cos4(k) == CASE k % 4 = 0 -> 1 [] k % 4 = 1 -> 0 [] k % 4 = 2 -> 0 - 1 [] OTHER -> 0
Sin4(k) == CASE k % 4 = 0 -> 0 [] k % 4 = 1 -> 1 [] k % 4 = 2 -> 0 [] OTHER -> 0 - 1

\* The rotary tables of a model whose positions are theta quarter turns apart,
\* for the positions 0 .. window_length.
CosTable(theta) == [p \in 1 .. window_length + 1 |-> Cos4((p - 1) * theta)]
SinTable(theta) == [p \in 1 .. window_length + 1 |-> Sin4((p - 1) * theta)]
Thetas == {1, 2}

\* The cache_kwargs a caller of SinkCache.update passes: none at all, no
\* RoPE, RoPE, RoPE with partial_rotation_size.
SinkKwargs ==
    {None,
     Some([sin |-> None, cos |-> None, partial_rotation_size |-> None])}
    \cup {Some([sin |-> Some(SinTable(th)), cos |-> Some(CosTable(th)),
                partial_rotation_size |-> None]) : th \in Thetas}
    \cup {Some([sin |-> Some(SinTable(1)), cos |-> Some(CosTable(1)),
                partial_rotation_size |-> Some(HeadDim \div 2)])}

\* cache_position: c distinct slots of the buffer, ascending
RECURSIVE Ascending(_, _)
Ascending(lo, c) ==
    IF c = 0 THEN {<< >>}
    ELSE UNION {{<<p>> \o rest : rest \in Ascending(p + 1, c - 1)} :
                   p \in lo .. max_cache_len - 1}
StaticKwargs(c) == {None} \cup {Some([cache_position |-> P]) : P \in Ascending(0, c)}

DynamicKwargs == {None, Some([sin |-> None, cos |-> None, partial_rotation_size |-> None])}

KwargsOf(k) == IF k = "DynamicCache" THEN DynamicKwargs ELSE SinkKwargs

\* beam_idx: the rows reversed, and every row replaced by row 0
BeamIdxs == {[i \in 1 .. Batch |-> Batch - i], [i \in 1 .. Batch |-> 0]}

\* new_seq_length of the get_usable_length calls
NewSeqLengths == {1, window_length}

\* ------------------------------------------------------ the state machine
Kinds == {"DynamicCache", "SinkCache", "StaticCache"}

Self ==
    [key_cache |-> key_cache, value_cache |-> value_cache,
     seen_tokens |-> seen_tokens, cos_sin_cache |-> cos_sin_cache]

\* The object becomes r.self and the call's outcome is recorded in ret.
Outcome(r, op, layer_idx, n) ==
    /\ key_cache' = r.self.key_cache
    /\ value_cache' = r.self.value_cache
    /\ seen_tokens' = r.self.seen_tokens
    /\ cos_sin_cache' = r.self.cos_sin_cache
    /\ ret' = [op |-> op, layer_idx |-> layer_idx, n |-> n,
               raised |-> r.raised, out |-> r.out]
    /\ UNCHANGED checkpoint

\* A call made on the cache by a caller other than BloomModel.forward.
Becomes(r, op, layer_idx, n) ==
    /\ Outcome(r, op, layer_idx, n)
    /\ UNCHANGED forward

\* No shard_checkpoint call is under way.
NoCheckpoint ==
    /\ state_dict = << >>
    /\ max_shard_size = 0
    /\ weights_name = << >>
    /\ shards = << >>
    /\ index = None
    /\ save_directory = {}

\* No forward pass has been made.
NoForward ==
    forward = [pc |-> "idle", given |-> "None", use_cache |-> FALSE, training |-> FALSE,
               use_legacy_cache |-> FALSE, past_key_values |-> "None",
               seq_length |-> 0, past_length |-> 0,
               target_length |-> None, i |-> 0, raised |-> "", next_cache |-> "None"]

Init ==
    /\ kind \in Kinds
    /\ LET self == IF kind = "StaticCache" THEN StaticCacheInit ELSE DynamicCacheInit
       IN  /\ key_cache = self.key_cache
           /\ value_cache = self.value_cache
           /\ seen_tokens = self.seen_tokens
           /\ cos_sin_cache = self.cos_sin_cache
    /\ fed = [l \in 1 .. NumLayers |-> 0]
    /\ reorders = 0
    /\ ret = [op |-> "init", layer_idx |-> 0, n |-> 0, raised |-> "", out |-> None]
    /\ NoCheckpoint
    /\ NoForward

\* cache.update(key_states, value_states, layer_idx, cache_kwargs)
UpdateCall(self, k, key_states, value_states, layer_idx, cache_kwargs) ==
    CASE k = "DynamicCache" ->
             DynamicCacheUpdate(self, key_states, value_states, layer_idx, cache_kwargs)
      [] k = "SinkCache" ->
             SinkCacheUpdate(self, key_states, value_states, layer_idx, cache_kwargs)
      [] OTHER ->
             StaticCacheUpdate(self, key_states, value_states, layer_idx, cache_kwargs)

\* fed counts, per layer index, the tokens of the update calls made for it; a
\* call refused before it reads its tensors (AttributeError) passes none.
Fed(r, tag_layer, c) ==
    IF r.raised = "AttributeError" THEN fed ELSE [fed EXCEPT ![tag_layer + 1] = @ + c]

\* An update call on a DynamicCache or a SinkCache.
UpdateWith(layer_idx, c, cache_kwargs) ==
    LET r == UpdateCall(Self, kind,
                        KeyStates(layer_idx, fed[layer_idx + 1], c),
                        ValueStates(layer_idx, fed[layer_idx + 1], c),
                        layer_idx, cache_kwargs)
    IN  /\ kind # "StaticCache"
        /\ fed[layer_idx + 1] + c <= MaxFed
        /\ Becomes(r, "update", layer_idx, c)
        /\ fed' = Fed(r, layer_idx, c)
        /\ UNCHANGED <<kind, reorders>>

Update ==
    \E layer_idx \in LayerIdx, c \in 1 .. MaxChunk :
      \E cache_kwargs \in KwargsOf(kind) :
        UpdateWith(layer_idx, c, cache_kwargs)

\* An update call on a StaticCache; the tokens written are numbered in one
\* sequence, whatever layer_idx the caller passes.
StaticUpdateWith(layer_idx, c, cache_kwargs) ==
    LET r == UpdateCall(Self, kind, KeyStates(0, fed[1], c),
                        ValueStates(0, fed[1], c), layer_idx, cache_kwargs)
    IN  /\ kind = "StaticCache"
        /\ fed[1] + c <= MaxFed
        /\ Becomes(r, "update", layer_idx, c)
        /\ fed' = Fed(r, 0, c)
        /\ UNCHANGED <<kind, reorders>>

StaticUpdate ==
    \E layer_idx \in LayerIdx, c \in 1 .. MaxChunk :
      \E cache_kwargs \in StaticKwargs(c) :
        StaticUpdateWith(layer_idx, c, cache_kwargs)

GetSeqLengthCall(self, k, layer_idx) ==
    CASE k = "DynamicCache" -> DynamicCacheGetSeqLength(self, layer_idx)
      [] k = "SinkCache" -> SinkCacheGetSeqLength(self, layer_idx)
      [] OTHER -> StaticCacheGetSeqLength(self, layer_idx)

GetMaxLengthCall(self, k) ==
    CASE k = "DynamicCache" -> DynamicCacheGetMaxLength(self)
      [] k = "SinkCache" -> SinkCacheGetMaxLength(self)
      [] OTHER -> StaticCacheGetMaxLength(self)

GetUsableLengthCall(self, k, new_seq_length, layer_idx) ==
    IF k = "StaticCache"
    THEN StaticCacheGetUsableLength(self, new_seq_length, layer_idx)
    ELSE CacheGetUsableLength(self, GetMaxLengthCall(self, k).out,
                              GetSeqLengthCall(self, k, layer_idx).out, new_seq_length)

GetSeqLength ==
    \E layer_idx \in LayerIdx :
        /\ Becomes(GetSeqLengthCall(Self, kind, layer_idx), "get_seq_length", layer_idx, 0)
        /\ UNCHANGED <<kind, fed, reorders>>

GetMaxLength ==
    /\ Becomes(GetMaxLengthCall(Self, kind), "get_max_length", 0, 0)
    /\ UNCHANGED <<kind, fed, reorders>>

GetUsableLength ==
    \E layer_idx \in LayerIdx, new_seq_length \in NewSeqLengths :
        /\ Becomes(GetUsableLengthCall(Self, kind, new_seq_length, layer_idx),
                   "get_usable_length", layer_idx, new_seq_length)
        /\ UNCHANGED <<kind, fed, reorders>>

ReorderCacheCall(self, k, beam_idx) ==
    IF k = "StaticCache"
    THEN StaticCacheReorderCache(self, beam_idx)
    ELSE ReorderCache(self, beam_idx)

\* cache.reorder_cache(beam_idx)
ReorderWith(beam_idx) ==
    /\ reorders < MaxReorder
    /\ Becomes(ReorderCacheCall(Self, kind, beam_idx), "reorder_cache", 0, 0)
    /\ reorders' = reorders + 1
    /\ UNCHANGED <<kind, fed>>

Reorder == \E beam_idx \in BeamIdxs : ReorderWith(beam_idx)

\* cache[layer_idx]: class Cache, SinkCache and StaticCache define no
\* __getitem__, so only a DynamicCache is subscriptable.
GetItemCall(self, k, layer_idx) ==
    IF k = "DynamicCache"
    THEN DynamicCacheGetItem(self, layer_idx)
    ELSE Raise(self, "TypeError")

GetItem ==
    \E layer_idx \in LayerIdx :
        /\ Becomes(GetItemCall(Self, kind, layer_idx), "getitem", layer_idx, 0)
        /\ UNCHANGED <<kind, fed, reorders>>

\* DynamicCache.from_legacy_cache(cache.to_legacy_cache()): cache is left as
\* it is and the new cache is the value returned.
LegacyRoundTrip ==
    /\ kind = "DynamicCache"
    /\ Becomes(Return(Self, FromLegacyCache(Some(ToLegacyCache(Self)))),
               "from_legacy_cache", 0, 0)
    /\ UNCHANGED <<kind, fed, reorders>>

Next ==
    \/ Update
    \/ StaticUpdate
    \/ GetSeqLength
    \/ GetMaxLength
    \/ GetUsableLength
    \/ GetItem
    \/ LegacyRoundTrip

Spec == Init /\ [][Next]_vars

\* The caches under update and reorder_cache calls (beam search); the updates
\* of a DynamicCache or SinkCache are made without RoPE.
BeamUpdate ==
    \E layer_idx \in LayerIdx, c \in 1 .. MaxChunk :
        UpdateWith(layer_idx, c, Some([sin |-> None, cos |-> None, partial_rotation_size |-> None]))

NextReorder ==
    \/ BeamUpdate
    \/ StaticUpdate
    \/ Reorder

SpecReorder == Init /\ [][NextReorder]_vars

\* The caches when the caller visits the layers in order (an update for a
\* layer is made once the layers before it hold something), reorders the
\* batch, and goes on with the DynamicCache built by from_legacy_cache from
\* the legacy form of its cache.
OrderedUpdate ==
    \E layer_idx \in LayerIdx, c \in 1 .. MaxChunk :
        /\ layer_idx <= Len(key_cache)
        /\ UpdateWith(layer_idx, c,
                      Some([sin |-> None, cos |-> None, partial_rotation_size |-> None]))

FromLegacy ==
    /\ kind = "DynamicCache"
    /\ Becomes(Return(FromLegacyCache(Some(ToLegacyCache(Self))), None),
               "from_legacy_cache", 0, 0)
    /\ UNCHANGED <<kind, fed, reorders>>

NextOrdered ==
    \/ OrderedUpdate
    \/ Reorder
    \/ FromLegacy

SpecOrdered == Init /\ [][NextOrdered]_vars

\* The caches of a caller that passes layer 0 chunks shorter than
\* window_length - num_sink_tokens, one after the other, and asks for the
\* lengths in between.
SmallChunkUpdate ==
    \E c \in 1 .. window_length - num_sink_tokens - 1 :
      \E cache_kwargs \in KwargsOf(kind) :
        UpdateWith(0, c, cache_kwargs)

NextSmallChunks ==
    \/ SmallChunkUpdate
    \/ GetSeqLength
    \/ GetMaxLength
    \/ GetUsableLength

SpecSmallChunks == Init /\ [][NextSmallChunks]_vars

\* shard_checkpoint on its own: the arguments are drawn at the start and the
\* call is made once; no cache is in use.
InitShard ==
    /\ kind = "DynamicCache"
    /\ key_cache = DynamicCacheInit.key_cache
    /\ value_cache = DynamicCacheInit.value_cache
    /\ seen_tokens = DynamicCacheInit.seen_tokens
    /\ cos_sin_cache = DynamicCacheInit.cos_sin_cache
    /\ fed = [l \in 1 .. NumLayers |-> 0]
    /\ reorders = 0
    /\ ret = [op |-> "init", layer_idx |-> 0, n |-> 0, raised |-> "", out |-> None]
    /\ state_dict \in StateDicts
    /\ max_shard_size \in MaxShardSizes
    /\ weights_name \in WeightsNames
    /\ shards = << >>
    /\ index = None
    /\ save_directory = {}
    /\ NoForward

\* shards, index = shard_checkpoint(state_dict, max_shard_size, weights_name)
ShardCheckpointCall ==
    /\ shards = << >>
    /\ LET r == ShardCheckpoint(state_dict, max_shard_size, weights_name)
       IN  shards' = r[1] /\ index' = r[2]
    /\ UNCHANGED <<kind, key_cache, value_cache, seen_tokens, cos_sin_cache, fed, reorders,
                   ret, state_dict, max_shard_size, weights_name, save_directory, forward>>

NextShard == ShardCheckpointCall

SpecShard == InitShard /\ [][NextShard]_vars

\* PreTrainedModel.save_pretrained(save_directory, is_main_process, state_dict,
\* save_function, max_shard_size, variant) on a directory: the configuration
\* is saved by the main process, the state dict is sharded, the folder is
\* cleaned, the shards are saved and, when there is one, the index.
\* _keys_to_ignore_on_save is None.  Saves are made as long as the directory
\* holds at most MaxFiles files.
SavePretrainedWith(sd, max_size, variant, is_main_process, can_generate) ==
    LET name == AddVariant(WEIGHTS_NAME, variant)
        r == ShardCheckpoint(sd, max_size, name)
        configs == IF ~is_main_process THEN {}
                   ELSE IF can_generate THEN {CONFIG_NAME, GENERATION_CONFIG_NAME}
                   ELSE {CONFIG_NAME}
        listdir == save_directory \cup configs
        kept == {filename \in listdir : ~Removes(filename, name, r[1], is_main_process)}
        save_index_file == IF IsNone(r[2]) THEN {}
                           ELSE {AddVariant(WEIGHTS_INDEX_NAME, variant)}
    IN  /\ Cardinality(save_directory) <= MaxFiles
        /\ state_dict' = sd
        /\ max_shard_size' = max_size
        /\ weights_name' = name
        /\ shards' = r[1]
        /\ index' = r[2]
        /\ save_directory' = kept \cup DOMAIN r[1] \cup save_index_file
        /\ UNCHANGED <<kind, key_cache, value_cache, seen_tokens, cos_sin_cache, fed,
                       reorders, ret, forward>>

SavePretrained ==
    \E sd \in SaveStateDicts, max_size \in SaveShardSizes, variant \in Variants,
       is_main_process \in BOOLEAN, can_generate \in BOOLEAN :
        SavePretrainedWith(sd, max_size, variant, is_main_process, can_generate)

\* save_pretrained on its own: the directory holds some other files at the
\* start; no cache is in use.
InitSave ==
    /\ kind = "DynamicCache"
    /\ key_cache = DynamicCacheInit.key_cache
    /\ value_cache = DynamicCacheInit.value_cache
    /\ seen_tokens = DynamicCacheInit.seen_tokens
    /\ cos_sin_cache = DynamicCacheInit.cos_sin_cache
    /\ fed = [l \in 1 .. NumLayers |-> 0]
    /\ reorders = 0
    /\ ret = [op |-> "init", layer_idx |-> 0, n |-> 0, raised |-> "", out |-> None]
    /\ state_dict = << >>
    /\ max_shard_size = 0
    /\ weights_name = << >>
    /\ shards = << >>
    /\ index = None
    /\ save_directory \in SUBSET OtherFiles
    /\ NoForward

NextSave == SavePretrained

SpecSave == InitSave /\ [][NextSave]_vars

\* ---------------------------------------------------------------- BloomModel
\* What the caller passes as past_key_values: a Cache object, the legacy
\* tuple of (key, value) pairs, or None.  The content of a legacy tuple is
\* to_legacy_cache() of the cache variables.
Given == {"Cache", "legacy", "None"}

AttnImplementations == {"eager", "sdpa", "flash_attention_2"}

\* The forward pass ends with an exception.
ForwardRaises(f, error) == [f EXCEPT !.pc = "idle", !.raised = error]

\* cache_kwargs = {"cache_position": cache_position}, with cache_position =
\* arange(past_length, past_length + seq_length); the keys sin, cos and
\* partial_rotation_size are absent, so that cache_kwargs.get gives None.
BloomCacheKwargs(k, past_length, seq_length) ==
    IF k = "StaticCache"
    THEN Some([cache_position |-> [p \in 1 .. seq_length |-> past_length + p - 1]])
    ELSE Some([sin |-> None, cos |-> None, partial_rotation_size |-> None])

\* BloomModel.forward up to the computation of cache_position: use_cache is
\* switched off under gradient checkpointing, a past_key_values that is not a
\* Cache is converted when use_cache and not training, and past_length is
\* asked of the cache.
BloomModelForward ==
    \E given \in Given, use_cache_arg \in BOOLEAN, training \in BOOLEAN,
       gradient_checkpointing \in BOOLEAN, seq_length \in 1 .. MaxChunk :
      LET use_cache == use_cache_arg /\ ~(gradient_checkpointing /\ training)
          use_legacy_cache == use_cache /\ given # "Cache" /\ ~training
          past_key_values ==
              IF use_legacy_cache
              THEN FromLegacyCache(IF given = "None" THEN None
                                   ELSE Some(ToLegacyCache(Self)))
              ELSE Self
          is == IF use_legacy_cache \/ given = "Cache" THEN "Cache"
                ELSE IF given = "legacy" THEN "tuple" ELSE "None"
          f == [pc |-> "mask", given |-> given, use_cache |-> use_cache,
                training |-> training, use_legacy_cache |-> use_legacy_cache,
                past_key_values |-> is, seq_length |-> seq_length, past_length |-> 0,
                target_length |-> None, i |-> 0, raised |-> "", next_cache |-> "None"]
          r == GetSeqLengthCall(past_key_values, kind, 0)
      IN  /\ forward.pc = "idle"
          /\ \A l \in 1 .. NumLayers : fed[l] + seq_length <= MaxFed
          /\ given # "Cache" => kind = "DynamicCache"
          /\ given = "None" => Self = DynamicCacheInit
          /\ CASE is = "Cache" ->
                    /\ Outcome(r, "get_seq_length", 0, 0)
                    /\ forward' = IF r.raised # "" THEN ForwardRaises(f, r.raised)
                                  ELSE [f EXCEPT !.past_length = r.out]
               [] is = "tuple" ->
                    /\ forward' = ForwardRaises(f, "AttributeError")
                    /\ UNCHANGED <<key_cache, value_cache, seen_tokens, cos_sin_cache,
                                   ret, checkpoint>>
               [] OTHER ->
                    /\ forward' = f
                    /\ UNCHANGED <<key_cache, value_cache, seen_tokens, cos_sin_cache,
                                   ret, checkpoint>>
          /\ UNCHANGED <<kind, fed, reorders>>

\* BloomModel._update_causal_mask, as far as it uses the cache.
UpdateCausalMask ==
    \E attn_implementation \in AttnImplementations :
      LET f == [forward EXCEPT !.pc = "block", !.i = 0]
          r == GetSeqLengthCall(Self, kind, 0)
          using_static_cache == kind = "StaticCache"
          target_length ==
              IF using_static_cache THEN GetMaxLengthCall(Self, kind).out
              ELSE Some(forward.past_length + forward.seq_length)
      IN  /\ forward.pc = "mask"
          /\ IF attn_implementation = "flash_attention_2"
                 \/ forward.past_key_values = "None"
             THEN /\ forward' =
                        IF attn_implementation = "flash_attention_2" THEN f
                        ELSE [f EXCEPT !.target_length = target_length]
                  /\ UNCHANGED <<key_cache, value_cache, seen_tokens, cos_sin_cache,
                                 ret, checkpoint>>
             ELSE /\ Outcome(r, "get_seq_length", 0, 0)
                  /\ forward' = IF r.raised # "" THEN ForwardRaises(forward, r.raised)
                                ELSE [f EXCEPT !.target_length = target_length]
          /\ UNCHANGED <<kind, fed, reorders>>

\* Block i of the loop over self.h: BloomAttention.forward updates the cache
\* for its layer_idx when layer_past is not None.
BloomBlock ==
    LET i == forward.i
        c == forward.seq_length
        tag_layer == IF kind = "StaticCache" THEN 0 ELSE i
        r == UpdateCall(Self, kind,
                        KeyStates(tag_layer, fed[tag_layer + 1], c),
                        ValueStates(tag_layer, fed[tag_layer + 1], c),
                        i, BloomCacheKwargs(kind, forward.past_length, c))
        f == [forward EXCEPT !.i = i + 1,
                             !.pc = IF i + 1 = NumLayers THEN "return" ELSE "block"]
    IN  /\ forward.pc = "block"
        /\ IF forward.past_key_values = "None"
           THEN /\ forward' = f
                /\ UNCHANGED <<key_cache, value_cache, seen_tokens, cos_sin_cache,
                               ret, checkpoint, fed>>
           ELSE /\ Outcome(r, "update", i, c)
                /\ fed' = Fed(r, tag_layer, c)
                /\ forward' = IF r.raised # "" THEN ForwardRaises(forward, r.raised) ELSE f
        /\ UNCHANGED <<kind, reorders>>

\* The end of BloomModel.forward: next_cache is None without use_cache,
\* to_legacy_cache() of the cache under use_legacy_cache, else the object
\* the blocks were given.
BloomModelReturn ==
    /\ forward.pc = "return"
    /\ forward' = [forward EXCEPT
                      !.pc = "idle",
                      !.next_cache = IF ~forward.use_cache THEN "None"
                                     ELSE IF forward.use_legacy_cache THEN "legacy"
                                     ELSE forward.past_key_values]
    /\ UNCHANGED <<kind, key_cache, value_cache, seen_tokens, cos_sin_cache, fed,
                   reorders, ret, checkpoint>>

NextBloom ==
    \/ BloomModelForward
    \/ UpdateCausalMask
    \/ BloomBlock
    \/ BloomModelReturn

SpecBloom == Init /\ [][NextBloom]_vars

\* ------------------------------------------------------------------ claims
\* The (key, value) entry stored for layer_idx, None when there is none.
Entry(keys, values, layer_idx) ==
    IF layer_idx < Len(keys) THEN Some(<<keys[layer_idx + 1], values[layer_idx + 1]>>) ELSE None

\* C1: in a SinkCache, get_seq_length(layer) <= window_length for every
\* layer, after any sequence of update calls.
C1_SinkBounded ==
    kind = "SinkCache" =>
        \A layer_idx \in LayerIdx :
            SinkCacheGetSeqLength(Self, layer_idx).out <= window_length

\* C2: an update call on a SinkCache leaves, in every layer that holds at
\* least num_sink_tokens tokens, the first num_sink_tokens positions of the
\* key and of the value tensor as they were.
C2_SinksKept ==
    [][(kind = "SinkCache" /\ ret'.op = "update") =>
          \A l \in 1 .. Len(key_cache) :
              SeqLen(key_cache[l]) >= num_sink_tokens =>
                  /\ SeqTo(key_cache'[l], num_sink_tokens) = SeqTo(key_cache[l], num_sink_tokens)
                  /\ SeqTo(value_cache'[l], num_sink_tokens) =
                         SeqTo(value_cache[l], num_sink_tokens)]_vars

\* A shift with RoPE has evicted tokens of layer 0, whose first positions
\* still hold the first tokens passed for it.
C2_Witness ==
    /\ kind = "SinkCache"
    /\ ret.op = "update" /\ ret.raised = "" /\ ret.layer_idx = 0
    /\ DOMAIN cos_sin_cache # {}
    /\ Len(key_cache) > 0
    /\ SeqLen(key_cache[1]) < fed[1]
    /\ key_cache[1][1][SeqLen(key_cache[1])] = KeyVec(Tag(0, fed[1], 1))
    /\ SeqTo(key_cache[1], num_sink_tokens) = KeyStates(0, 0, num_sink_tokens)
    /\ SeqTo(value_cache[1], num_sink_tokens) = ValueStates(0, 0, num_sink_tokens)

\* C3: in a DynamicCache, get_seq_length(layer) is the sum of the chunk
\* lengths of the update calls made for that layer, and so is the sequence
\* length of the key tensor an update returns.
C3_DynamicGrowth ==
    kind = "DynamicCache" =>
        /\ \A layer_idx \in LayerIdx :
               DynamicCacheGetSeqLength(Self, layer_idx).out = fed[layer_idx + 1]
        /\ ret.op = "update" =>
               /\ ret.raised = ""
               /\ SeqLen(ret.out[1]) = fed[ret.layer_idx + 1]

\* C4: DynamicCache.from_legacy_cache(cache.to_legacy_cache()) has as many
\* layers as cache and the same key and value tensors in every layer.
C4_RoundTrip ==
    ret.op = "from_legacy_cache" =>
        /\ Len(ret.out.key_cache) = Len(key_cache)
        /\ Len(ret.out.value_cache) = Len(value_cache)
        /\ \A l \in 1 .. Len(key_cache) :
               /\ ret.out.key_cache[l] = key_cache[l]
               /\ ret.out.value_cache[l] = value_cache[l]

\* The round trip of a cache of two layers of different lengths.
C4_Witness ==
    /\ ret.op = "from_legacy_cache"
    /\ Len(key_cache) = 2
    /\ SeqLen(key_cache[1]) > SeqLen(key_cache[2])
    /\ SeqLen(key_cache[2]) > 1
    /\ ret.out.key_cache = key_cache

\* The number of tokens a DynamicCache or SinkCache stores for layer_idx.
ListLen(layer_idx) ==
    IF layer_idx < Len(key_cache) THEN SeqLen(key_cache[layer_idx + 1]) ELSE 0

\* The number of slots of a StaticCache that hold something.
StaticWritten == Cardinality({p \in 1 .. max_cache_len : key_cache[1][p] # ZeroVec})

C6_StaticAddressing ==
    /\ [](kind = "StaticCache" =>
            \A b \in 1 .. Batch, p \in 1 .. max_cache_len :
                \/ key_cache[b][p] = ZeroVec /\ value_cache[b][p] = ZeroVec
                \/ \E n \in 1 .. fed[1] :
                       /\ key_cache[b][p] = KeyVec(Tag(0, n, b))
                       /\ value_cache[b][p] = ValueVec(Tag(0, n, b)))
    /\ [][\A layer_idx \in LayerIdx, c \in 1 .. MaxChunk :
            \A P \in Ascending(0, c) :
              StaticUpdateWith(layer_idx, c, Some([cache_position |-> P])) =>
                /\ \A b \in 1 .. Batch, p \in 1 .. max_cache_len :
                       IF \E q \in 1 .. c : P[q] = p - 1
                       THEN \A q \in 1 .. c :
                                P[q] = p - 1 =>
                                    /\ key_cache'[b][p] = KeyStates(0, fed[1], c)[b][q]
                                    /\ value_cache'[b][p] = ValueStates(0, fed[1], c)[b][q]
                       ELSE /\ key_cache'[b][p] = key_cache[b][p]
                            /\ value_cache'[b][p] = value_cache[b][p]
                /\ ret'.raised = ""
                /\ ret'.out = <<key_cache', value_cache'>>
                /\ SeqLen(ret'.out[1]) = max_cache_len
                /\ SeqLen(ret'.out[2]) = max_cache_len]_vars

\* An update has written the last slot of the buffer, the first slot is
\* still zero, and the whole buffer was returned.
C6_Witness ==
    /\ kind = "StaticCache"
    /\ ret.op = "update" /\ ret.raised = ""
    /\ key_cache[1][1] = ZeroVec
    /\ key_cache[1][max_cache_len] = KeyVec(Tag(0, fed[1], 1))
    /\ fed[1] > ret.n
    /\ SeqLen(ret.out[1]) = max_cache_len

C8_DynamicAccumulates ==
    (kind = "DynamicCache" /\ ret.op = "update") =>
        /\ ret.raised = ""
        /\ ret.out = <<KeyStates(ret.layer_idx, 0, fed[ret.layer_idx + 1]),
                       ValueStates(ret.layer_idx, 0, fed[ret.layer_idx + 1])>>
        /\ Entry(key_cache, value_cache, ret.layer_idx) = Some(ret.out)

\* C9: an update call for layer_idx on a DynamicCache or a SinkCache leaves
\* the entry of every other layer as it was and creates no entry for another
\* layer.
C9_UpdateFrame ==
    [][(kind \in {"DynamicCache", "SinkCache"} /\ ret'.op = "update") =>
          \A layer_idx \in LayerIdx \ {ret'.layer_idx} :
              Entry(key_cache', value_cache', layer_idx) =
                  Entry(key_cache, value_cache, layer_idx)]_vars

\* The tokens layer 0 ingests in a call with outcome r.
Ingested0(r) ==
    IF r.op = "update" /\ r.layer_idx = 0 /\ r.raised = "" THEN r.n ELSE 0

\* C10: in a DynamicCache or a SinkCache seen_tokens starts at 0 and grows in
\* every step by the number of tokens layer 0 ingests in it: the chunk length
\* of an update call for layer 0 that stores its chunk, nothing in any other
\* step.
C10_SeenTokens ==
    /\ seen_tokens = 0
    /\ [][(kind \in {"DynamicCache", "SinkCache"}) =>
            seen_tokens' = seen_tokens + Ingested0(ret')]_vars

\* C11: on a DynamicCache or a SinkCache get_seq_length(layer_idx) is 0 for a
\* layer no update call was made for and the number of tokens stored for the
\* layer otherwise; it raises nothing and leaves the cache as it was.
C11_GetSeqLength ==
    kind \in {"DynamicCache", "SinkCache"} =>
        \A layer_idx \in LayerIdx :
            LET r == GetSeqLengthCall(Self, kind, layer_idx)
            IN  /\ r.raised = ""
                /\ r.self = Self
                /\ r.out = IF fed[layer_idx + 1] = 0 THEN 0 ELSE ListLen(layer_idx)

\* C12: get_max_length answers None on a DynamicCache, window_length on a
\* SinkCache and max_cache_len on a StaticCache, in every state, and leaves
\* the cache as it was.
C12_MaxLengthConstant ==
    LET r == GetMaxLengthCall(Self, kind)
        expected == CASE kind = "DynamicCache" -> None
                      [] kind = "SinkCache" -> Some(window_length)
                      [] OTHER -> Some(max_cache_len)
    IN  /\ r.raised = "" /\ r.self = Self /\ r.out = expected
        /\ ret.op = "get_max_length" => (ret.raised = "" /\ ret.out = expected)

\* get_max_length has answered window_length on a SinkCache that has shifted.
C12_Witness ==
    /\ kind = "SinkCache"
    /\ ret.op = "get_max_length" /\ ret.out = Some(window_length)
    /\ ListLen(0) = window_length
    /\ fed[1] > window_length

\* The value vectors a caller can have passed to update.
PassedValues ==
    {ValueVec(Tag(layer_idx, n, b)) : layer_idx \in LayerIdx, n \in 1 .. MaxFed, b \in 1 .. Batch}

\* C13: in a SinkCache every stored value is an unmodified copy of a value
\* passed to update, key and value of a layer have the same sequence length,
\* and a shift stores concat(first num_sink_tokens values, tail of the old
\* values from -window_length + num_sink_tokens + c on, incoming values).
C13_SinkValues ==
    /\ [](kind = "SinkCache" =>
            \A l \in 1 .. Len(value_cache) :
                /\ \A b \in 1 .. Batch, j \in 1 .. SeqLen(value_cache[l]) :
                       value_cache[l][b][j] \in PassedValues
                /\ SeqLen(key_cache[l]) = SeqLen(value_cache[l]))
    /\ [][\A layer_idx \in LayerIdx, c \in 1 .. MaxChunk :
            \A cache_kwargs \in SinkKwargs :
              (/\ kind = "SinkCache"
               /\ ret'.op = "update" /\ ret'.raised = ""
               /\ UpdateWith(layer_idx, c, cache_kwargs)
               /\ layer_idx < Len(key_cache)
               /\ c + ListLen(layer_idx) >= window_length) =>
                  value_cache'[layer_idx + 1] =
                      CatSeq(CatSeq(SeqTo(value_cache[layer_idx + 1], num_sink_tokens),
                                    SeqFrom(value_cache[layer_idx + 1],
                                            0 - window_length + num_sink_tokens + c)),
                             ValueStates(layer_idx, fed[layer_idx + 1], c))]_vars

\* C14: an entry of cos_sin_cache is never changed or removed once it is
\* there; an entry is added only by a SinkCache update that takes the shift
\* transition with sin and cos passed, under the length of its chunk.
C14_MemoImmutable ==
    [][/\ \A c \in DOMAIN cos_sin_cache :
              /\ c \in DOMAIN cos_sin_cache'
              /\ cos_sin_cache'[c] = cos_sin_cache[c]
       /\ DOMAIN cos_sin_cache' # DOMAIN cos_sin_cache =>
              /\ kind = "SinkCache"
              /\ ret'.op = "update"
              /\ ret'.layer_idx < Len(key_cache)
              /\ ret'.n + ListLen(ret'.layer_idx) >= window_length
              /\ DOMAIN cos_sin_cache' = DOMAIN cos_sin_cache \cup {ret'.n}
              /\ \A cache_kwargs \in SinkKwargs :
                     UpdateWith(ret'.layer_idx, ret'.n, cache_kwargs) =>
                         /\ ~IsNone(cache_kwargs)
                         /\ ~IsNone(cache_kwargs[1].cos)
                         /\ ~IsNone(cache_kwargs[1].sin)]_vars

\* Both layers hold a re-rotated key while the memo holds the pair of chunk
\* length 1 only: of the shifts with RoPE, all of chunks of length 1, the
\* later ones found the entry there.
C14_Witness ==
    /\ kind = "SinkCache"
    /\ DOMAIN cos_sin_cache = {1}
    /\ ret.op = "update" /\ ret.raised = "" /\ ret.n = 1
    /\ Len(key_cache) = 2
    /\ \A l \in 1 .. 2 :
           /\ SeqLen(key_cache[l]) = window_length
           /\ \E i \in 1 .. HeadDim : key_cache[l][1][num_sink_tokens + 1][i] < 0

\* C15: reorder_cache(beam_idx) on a DynamicCache or a SinkCache puts, in
\* every layer, row beam_idx[b] of the old key and of the old value tensor in
\* row b, and changes neither the number of layers, nor the sequence length
\* of a layer, nor seen_tokens.
C15_ReorderGathers ==
    [][\A beam_idx \in BeamIdxs :
          (/\ kind \in {"DynamicCache", "SinkCache"}
           /\ ret'.op = "reorder_cache"
           /\ ReorderWith(beam_idx)) =>
              /\ ret'.raised = ""
              /\ Len(key_cache') = Len(key_cache)
              /\ Len(value_cache') = Len(value_cache)
              /\ seen_tokens' = seen_tokens
              /\ \A l \in 1 .. Len(key_cache) :
                     /\ Len(key_cache'[l]) = Len(beam_idx)
                     /\ Len(value_cache'[l]) = Len(beam_idx)
                     /\ SeqLen(key_cache'[l]) = SeqLen(key_cache[l])
                     /\ SeqLen(value_cache'[l]) = SeqLen(value_cache[l])
                     /\ \A b \in 1 .. Len(beam_idx) :
                            /\ key_cache'[l][b] = key_cache[l][beam_idx[b] + 1]
                            /\ value_cache'[l][b] = value_cache[l][beam_idx[b] + 1]]_vars

\* A SinkCache of two layers, layer 0 shifted, has been reordered: its first
\* row holds what was passed for the last row.
C15_Witness ==
    /\ kind = "SinkCache"
    /\ ret.op = "reorder_cache" /\ ret.raised = ""
    /\ Len(key_cache) = 2
    /\ fed[1] > window_length
    /\ key_cache[1][1][1] = KeyVec(Tag(0, 1, Batch))
    /\ value_cache[2][1][1] = ValueVec(Tag(1, 1, Batch))

\* The message of the KeyError for layer_idx on a cache of n layers.
LayerCountMessage(n, layer_idx) ==
    "Cache only has " \o ToString(n) \o " layers, attempted to access layer with index "
        \o ToString(layer_idx)

\* C16, as amended: indexing a DynamicCache with a layer index at or beyond
\* the number of populated layers raises a KeyError whose message names that
\* number, indexing a populated layer returns its (key, value) pair, and both
\* leave the cache as it was; a SinkCache or a StaticCache is not
\* subscriptable and raises a TypeError for every index.
C16_Indexing ==
    /\ \A layer_idx \in LayerIdx :
           LET r == GetItemCall(Self, kind, layer_idx)
           IN  /\ r.self = Self
               /\ IF kind # "DynamicCache"
                  THEN r.raised = "TypeError"
                  ELSE IF layer_idx >= Len(key_cache)
                  THEN /\ r.raised = "KeyError"
                       /\ r.out = Some(LayerCountMessage(Len(key_cache), layer_idx))
                  ELSE /\ r.raised = ""
                       /\ r.out = <<key_cache[layer_idx + 1], value_cache[layer_idx + 1]>>
    /\ ret.op = "getitem" => ret.raised = GetItemCall(Self, kind, ret.layer_idx).raised

\* Layer 1 of a DynamicCache that holds layer 0 only has been asked for.
C16_Witness ==
    /\ kind = "DynamicCache"
    /\ ret.op = "getitem" /\ ret.raised = "KeyError" /\ ret.layer_idx = 1
    /\ Len(key_cache) = 1
    /\ ret.out = Some(LayerCountMessage(1, 1))

\* C16: indexing any cache with a layer index at or beyond the number of
\* populated layers raises an error whose message names that number, and
\* indexing a populated layer returns its (key, value) pair.
C16_Original ==
    \A layer_idx \in LayerIdx :
        LET r == GetItemCall(Self, kind, layer_idx)
            populated == IF kind = "StaticCache" THEN NumLayers ELSE Len(key_cache)
        IN  /\ r.self = Self
            /\ IF layer_idx >= populated
               THEN /\ r.raised # ""
                    /\ r.out = Some(LayerCountMessage(populated, layer_idx))
               ELSE /\ r.raised = ""
                    /\ r.out = IF kind = "StaticCache"
                               THEN <<key_cache, value_cache>>
                               ELSE <<key_cache[layer_idx + 1], value_cache[layer_idx + 1]>>

\* The vector x turned by a quarter turns.
Rotated(x, a) == [i \in 1 .. Len(x) |-> x[i] * Cos4(a) + RotateHalf(x)[i] * Sin4(a)]

\* The key x of a model with rotary tables of theta quarter turns a position,
\* moved by d positions; p is partial_rotation_size, None for all of x.
Displaced(x, d, theta, p) ==
    IF IsNone(p) THEN Rotated(x, d * theta)
    ELSE Rotated(SliceTo(x, p[1]), d * theta) \o SliceFrom(x, p[1])

\* The memo holds for chunk length c nothing, or what the tables of theta give.
MemoOf(c, theta) ==
    c \in DOMAIN cos_sin_cache =>
        LET rr == GetRerotationCosSin([Self EXCEPT !.cos_sin_cache = << >>],
                                      KeyStates(0, 0, c),
                                      SliceTo(CosTable(theta), window_length),
                                      SliceTo(SinTable(theta), window_length))
        IN  cos_sin_cache[c] = <<rr.cos, rr.sin>>

\* C17: a SinkCache update with sin and cos passed (the tables the memo was
\* computed from) that takes the shift transition, with a chunk shorter than
\* window_length - num_sink_tokens, leaves every kept key, which goes from
\* index j of the old tensor to index j2 of the new one, rotated by the angle
\* of j2 - j positions.
C17_RerotationIsDisplacement ==
    [][\A layer_idx \in LayerIdx, c \in 1 .. window_length - num_sink_tokens - 1 :
          \A cache_kwargs \in SinkKwargs \ {None}, theta \in Thetas :
            (/\ kind = "SinkCache"
             /\ ret'.op = "update" /\ ret'.raised = ""
             /\ cache_kwargs[1].cos = Some(CosTable(theta))
             /\ cache_kwargs[1].sin = Some(SinTable(theta))
             /\ layer_idx < Len(key_cache)
             /\ c + ListLen(layer_idx) >= window_length
             /\ MemoOf(c, theta)
             /\ UpdateWith(layer_idx, c, cache_kwargs)) =>
                LET L == ListLen(layer_idx)
                    kept == SeqLen(key_cache'[layer_idx + 1]) - num_sink_tokens - c
                IN  \A b \in 1 .. Batch, i \in 1 .. kept :
                        LET j == L - kept + i
                            j2 == num_sink_tokens + i
                        IN  key_cache'[layer_idx + 1][b][j2] =
                                Displaced(key_cache[layer_idx + 1][b][j], j2 - j, theta,
                                          cache_kwargs[1].partial_rotation_size)]_vars

\* The keys of state_dict that hold a tensor, and of those the ones that are
\* the first to hold theirs.
TensorKeys == {k \in 1 .. Len(state_dict) : state_dict[k].type = "Tensor"}
FirstKeys ==
    {k \in TensorKeys : \A j \in TensorKeys : state_dict[j].id = state_dict[k].id => k <= j}

\* The keys of the shard returned under file f, and the first keys among them.
ShardKeys(f) == {shards[f][i] : i \in 1 .. Len(shards[f])}
ShardFirstKeys(f) == ShardKeys(f) \cap FirstKeys

\* The total size of the tensors the keys K hold.
RECURSIVE SizeOfKeys(_)
SizeOfKeys(K) ==
    IF K = {} THEN 0
    ELSE LET k == CHOOSE x \in K : TRUE
         IN  WeightSize(state_dict[k]) + SizeOfKeys(K \ {k})

\* C18: every shard shard_checkpoint returns holds tensors of a total size of
\* at most max_shard_size, or one tensor only, bigger than max_shard_size.
C18_ShardSize ==
    \A f \in DOMAIN shards :
        \/ SizeOfKeys(ShardFirstKeys(f)) <= max_shard_size
        \/ Cardinality(ShardFirstKeys(f)) = 1

\* Two shards were returned: one of a tensor bigger than max_shard_size
\* under two keys, one of two tensors.
C18_Witness ==
    /\ Cardinality(DOMAIN shards) = 2
    /\ \E f \in DOMAIN shards :
           /\ Cardinality(ShardFirstKeys(f)) = 1
           /\ Cardinality(ShardKeys(f)) = 2
           /\ SizeOfKeys(ShardFirstKeys(f)) > max_shard_size
    /\ \E f \in DOMAIN shards :
           /\ Cardinality(ShardFirstKeys(f)) = 2
           /\ SizeOfKeys(ShardFirstKeys(f)) < max_shard_size

\* The state dict of the sizes 6, 6, 2, 6, 2, 2.
DocExample ==
    [k \in 1 .. 6 |->
        [type |-> "Tensor", id |-> k, dtype |-> "float16",
         numel |-> IF k \in {1, 2, 4} THEN 3 ELSE 1]]

\* C19: once shard_checkpoint has returned, every key of a tensor is in
\* exactly one shard and no other key is in any; the shards hold the first
\* keys of the tensors in key order, a shard being closed only when the next
\* tensor does not fit; a key of a tensor an earlier key holds is in that
\* key's shard; with more than one shard weight_map maps every key to the
\* file of its shard and total_size is the size of the distinct tensors, with
\* one shard the index is None; and the sizes 6, 6, 2, 6, 2, 2 with limit 10
\* give the shards [6], [6, 2], [6, 2, 2].
C19_GreedyPartition ==
    /\ ShardCheckpoint(DocExample, 10, WEIGHTS_NAME)[1] =
           (ShardFile(WEIGHTS_NAME, 0, 3) :> <<1>>)
               @@ (ShardFile(WEIGHTS_NAME, 1, 3) :> <<2, 3>>)
               @@ (ShardFile(WEIGHTS_NAME, 2, 3) :> <<4, 5, 6>>)
    /\ shards # << >> =>
        /\ \A k \in TensorKeys : Cardinality({f \in DOMAIN shards : k \in ShardKeys(f)}) = 1
        /\ \A f \in DOMAIN shards :
               /\ ShardKeys(f) \subseteq TensorKeys
               /\ Cardinality(ShardKeys(f)) = Len(shards[f])
               /\ \A i, j \in 1 .. Len(shards[f]) :
                      (i < j /\ shards[f][i] \in FirstKeys /\ shards[f][j] \in FirstKeys) =>
                          shards[f][i] < shards[f][j]
               /\ \A k \in ShardKeys(f) :
                      \E j \in ShardFirstKeys(f) : state_dict[j].id = state_dict[k].id
        /\ \A f, g \in DOMAIN shards :
               \/ f = g
               \/ \A j \in ShardFirstKeys(f), k \in ShardFirstKeys(g) : j < k
               \/ \A j \in ShardFirstKeys(f), k \in ShardFirstKeys(g) : k < j
        /\ \A f \in DOMAIN shards, k \in FirstKeys :
               (/\ \A j \in ShardFirstKeys(f) : j < k
                /\ \A j \in FirstKeys : j < k => \E i \in ShardFirstKeys(f) : j <= i) =>
                   SizeOfKeys(ShardFirstKeys(f)) + WeightSize(state_dict[k]) > max_shard_size
        /\ Cardinality(DOMAIN shards) = 1 => index = None
        /\ Cardinality(DOMAIN shards) > 1 =>
               /\ ~IsNone(index)
               /\ index[1].metadata.total_size = SizeOfKeys(FirstKeys)
               /\ DOMAIN index[1].weight_map = TensorKeys
               /\ \A k \in TensorKeys :
                      /\ index[1].weight_map[k] \in DOMAIN shards
                      /\ k \in ShardKeys(index[1].weight_map[k])

\* C20: a BloomModel forward pass that is given a StaticCache never calls
\* get_seq_length or get_usable_length on it, and so gets through the
\* computation of the cache length and the construction of the causal mask
\* without the unsupported-operation error (ValueError).
C20_StaticForward ==
    (kind = "StaticCache" /\ forward.given = "Cache")
        => /\ ret.op \notin {"get_seq_length", "get_usable_length"}
           /\ forward.raised # "ValueError"

\* C21: an update of a SinkCache that takes the shift transition on a
\* populated layer (incoming length + current length >= window_length) leaves
\* the layer with exactly window_length tokens, the kept tail and the incoming
\* chunk filling window_length - num_sink_tokens; and an update of a populated
\* layer that leaves it with window_length tokens took the shift transition.
C21_ShiftFillsWindow ==
    [][(kind = "SinkCache" /\ ret'.op = "update" /\ ret'.raised = ""
            /\ ret'.layer_idx < Len(key_cache)) =>
          LET l == ret'.layer_idx
              c == ret'.n
              L == ListLen(l)
              after == SeqLen(key_cache'[l + 1])
          IN  /\ c + L >= window_length =>
                     /\ SeqLen(KeptTail(key_cache[l + 1], c)) + c
                            = window_length - num_sink_tokens
                     /\ after = window_length
              /\ after = window_length => c + L >= window_length]_vars

\* C22: a shift of a SinkCache with RoPE and partial_rotation_size = p stores
\* every kept key with its leading p components re-rotated by the memoised
\* table and its remaining components unchanged, in their order, after the
\* rotated part; the head dimension of the stored keys is unchanged.
C22_PartialRotation ==
    [][\A layer_idx \in LayerIdx, c \in 1 .. MaxChunk, kw \in SinkKwargs :
          (/\ kind = "SinkCache"
           /\ ret'.op = "update" /\ ret'.raised = ""
           /\ ret'.layer_idx = layer_idx /\ ret'.n = c
           /\ ~IsNone(kw)
           /\ ~IsNone(kw[1].partial_rotation_size)
           /\ layer_idx < Len(key_cache)
           /\ c + ListLen(layer_idx) >= window_length
           /\ UpdateWith(layer_idx, c, kw))
          => LET p == kw[1].partial_rotation_size[1]
                 kept == KeptTail(key_cache[layer_idx + 1], c)
                 sinks == SeqLen(SinkTokens(key_cache[layer_idx + 1]))
                 stored == key_cache'[layer_idx + 1]
                 table == cos_sin_cache'[c]
             IN  /\ SeqLen(stored) = sinks + SeqLen(kept) + c
                 /\ \A b \in 1 .. Batch, j \in 1 .. SeqLen(kept) :
                        LET old == kept[b][j]
                            new == stored[b][sinks + j]
                            lead == SliceTo(old, p)
                        IN  /\ Len(new) = Len(old)
                            /\ SliceFrom(new, p) = SliceFrom(old, p)
                            /\ SliceTo(new, p) =
                                   [i \in 1 .. p |->
                                       lead[i] * table[1][j]
                                           + RotateHalf(lead)[i] * table[2][j]]]_vars

\* A shift with partial rotation has been made on layer 0: the key stored
\* after the sink tokens has the trailing components of a key passed for the
\* layer and other leading components.
C22_Witness ==
    /\ kind = "SinkCache"
    /\ ret.op = "update" /\ ret.raised = "" /\ ret.layer_idx = 0
    /\ DOMAIN cos_sin_cache # {}
    /\ fed[1] >= window_length
    /\ ListLen(0) > num_sink_tokens + ret.n
    /\ \E n \in 1 .. fed[1] :
           LET new == key_cache[1][1][num_sink_tokens + 1]
               passed == KeyVec(Tag(0, n, 1))
           IN  /\ SliceFrom(new, HeadDim \div 2) = SliceFrom(passed, HeadDim \div 2)
               /\ SliceTo(new, HeadDim \div 2) # SliceTo(passed, HeadDim \div 2)
               /\ \A i \in 1 .. HeadDim \div 2 :
                      new[i] \in {passed[k] : k \in 1 .. HeadDim \div 2}
                                    \cup {0 - passed[k] : k \in 1 .. HeadDim \div 2}

\* C23: a StaticCache holds one key buffer and one value buffer (batch rows
\* of max_cache_len slots, no layer axis); the effect and the result of
\* update(k, v, layer_idx, {cache_position: P}) are the same for every
\* layer_idx, so that after an update the slots in P hold the incoming states
\* whatever layer wrote them before; reorder_cache gathers the batch axis of
\* the two buffers, and to_legacy_cache returns None and changes nothing.
C23_StaticSingleBuffer ==
    /\ [](kind = "StaticCache" =>
            /\ Len(key_cache) = Batch /\ Len(value_cache) = Batch
            /\ \A b \in 1 .. Batch :
                   Len(key_cache[b]) = max_cache_len /\ Len(value_cache[b]) = max_cache_len
            /\ \A c \in 1 .. MaxChunk, l1 \in LayerIdx, l2 \in LayerIdx :
                   \A P \in Ascending(0, c) :
                       StaticCacheUpdate(Self, KeyStates(0, fed[1], c),
                                         ValueStates(0, fed[1], c), l1,
                                         Some([cache_position |-> P]))
                           = StaticCacheUpdate(Self, KeyStates(0, fed[1], c),
                                               ValueStates(0, fed[1], c), l2,
                                               Some([cache_position |-> P]))
            /\ StaticCacheToLegacyCache(Self) = Return(Self, None))
    /\ [][(kind = "StaticCache" /\ ret'.op = "update" /\ ret'.raised = "") =>
            \A c \in 1 .. MaxChunk :
                \A P \in Ascending(0, c) :
                    StaticUpdateWith(ret'.layer_idx, c, Some([cache_position |-> P])) =>
                        \A q \in 1 .. c, b \in 1 .. Batch :
                            /\ key_cache'[b][P[q] + 1] = KeyVec(Tag(0, fed[1] + q, b))
                            /\ value_cache'[b][P[q] + 1] = ValueVec(Tag(0, fed[1] + q, b))]_vars
    /\ [][(kind = "StaticCache" /\ ret'.op = "reorder_cache") =>
            \A beam_idx \in BeamIdxs :
                ReorderWith(beam_idx) =>
                    /\ Len(key_cache') = Len(beam_idx)
                    /\ Len(value_cache') = Len(beam_idx)
                    /\ \A b \in 1 .. Len(beam_idx) :
                           /\ key_cache'[b] = key_cache[beam_idx[b] + 1]
                           /\ value_cache'[b] = value_cache[beam_idx[b] + 1]]_vars

\* Tokens were written, the batch rows were reordered, and an update passed
\* for layer 1 has then written over a slot: the buffer holds fewer tokens
\* than were passed, one of them in the batch row it was not passed for.
C23_Witness ==
    /\ kind = "StaticCache"
    /\ ret.op = "update" /\ ret.raised = "" /\ ret.layer_idx = 1
    /\ reorders = 1
    /\ StaticWritten < fed[1]
    /\ \E p \in 1 .. max_cache_len, n \in 1 .. fed[1] :
           /\ key_cache[1][p] = KeyVec(Tag(0, n, 2))
           /\ value_cache[1][p] = ValueVec(Tag(0, n, 2))
    /\ \E p \in 1 .. max_cache_len :
           key_cache[1][p] = KeyVec(Tag(0, fed[1], 1))

\* The shard files shard_checkpoint names for weights name `name`.
ShardedForm(filename, name) ==
    \E n \in 1 .. MaxKeys + 1 : \E idx \in 0 .. n - 1 : filename = ShardFile(name, idx, n)

\* C24: after a save_pretrained call on the main process the directory holds
\* no file of the sharded-weights name form of the weights name that is not
\* one of the shard files the call wrote: the shard files of an earlier save
\* with another shard count are gone.
C24_NoStaleShards ==
    [][\A sd \in SaveStateDicts, max_size \in SaveShardSizes, variant \in Variants,
         can_generate \in BOOLEAN :
          SavePretrainedWith(sd, max_size, variant, TRUE, can_generate) =>
              \A filename \in save_directory' :
                  ShardedForm(filename, weights_name') => filename \in DOMAIN shards']_vars

\* C25: a BloomModel forward pass with use_cache, given a Cache object or made
\* in eval mode, returns the cache in the representation it was given: a
\* past_key_values that is not a Cache (legacy tuple or None) is converted with
\* from_legacy_cache when the model is not training and comes back as
\* to_legacy_cache(); a Cache object comes back as that object.  In between,
\* the cache gets one update per layer, in layer order, of the tokens of the
\* pass, and nothing else changes what it holds.
C25_ForwardReturnsCache ==
    /\ []((forward.pc = "idle" /\ forward.seq_length > 0 /\ forward.use_cache
             /\ (forward.given = "Cache" \/ ~forward.training)) =>
            /\ forward.raised = ""
            /\ forward.i = NumLayers
            /\ forward.use_legacy_cache = (forward.given # "Cache")
            /\ forward.next_cache = IF forward.given = "Cache" THEN "Cache" ELSE "legacy")
    /\ [][/\ (forward.pc = "block" /\ forward.past_key_values = "Cache") =>
               /\ ret'.op = "update"
               /\ ret'.layer_idx = forward.i
               /\ ret'.n = forward.seq_length
               /\ ret'.raised = "" => forward'.i = forward.i + 1
          /\ (key_cache' # key_cache \/ value_cache' # value_cache) =>
               (forward.pc = "block" /\ forward.past_key_values = "Cache")
          /\ forward'.pc = "return" => forward'.i = NumLayers]_vars

\* C26: in every state of a DynamicCache reached by update calls that visit
\* the layers in order, reorder_cache calls and construction by
\* from_legacy_cache, seen_tokens = get_seq_length(0).
C26_SeenTokens ==
    kind = "DynamicCache" => seen_tokens = DynamicCacheGetSeqLength(Self, 0).out

\* A DynamicCache of two layers of different lengths, reordered and then
\* rebuilt by from_legacy_cache.
C26_Witness ==
    /\ kind = "DynamicCache"
    /\ ret.op = "from_legacy_cache"
    /\ reorders = 1
    /\ Len(key_cache) = 2
    /\ seen_tokens >= 2
    /\ SeqLen(key_cache[2]) # SeqLen(key_cache[1])
    /\ key_cache[1][1][1] # KeyVec(Tag(0, 1, 1))

C28_FailFast ==
    [][(kind \in {"DynamicCache", "SinkCache"} /\ ret'.op = "update" /\ ret'.raised # "") =>
          /\ key_cache' = key_cache
          /\ value_cache' = value_cache
          /\ seen_tokens' = seen_tokens
          /\ cos_sin_cache' = cos_sin_cache]_vars

\* C29: SinkCache.update called without the extra options (cache_kwargs left
\* at its default None) raises nothing and has the effect and the result of
\* the call with an empty options map, in which RoPE is not in use.
C29_OptionsOmitted ==
    kind = "SinkCache" =>
        \A layer_idx \in LayerIdx, c \in 1 .. MaxChunk :
            LET omitted == SinkCacheUpdate(Self, KeyStates(layer_idx, fed[layer_idx + 1], c),
                                           ValueStates(layer_idx, fed[layer_idx + 1], c),
                                           layer_idx, None)
                empty == SinkCacheUpdate(Self, KeyStates(layer_idx, fed[layer_idx + 1], c),
                                         ValueStates(layer_idx, fed[layer_idx + 1], c),
                                         layer_idx,
                                         Some([sin |-> None, cos |-> None,
                                               partial_rotation_size |-> None]))
            IN  /\ omitted.raised # "AttributeError"
                /\ omitted = empty

\* C30, as amended: on a DynamicCache, for every new_seq_length >= 0 and every
\* layer, and on a SinkCache, for every new_seq_length from 0 to window_length
\* and every layer, get_usable_length(new_seq_length, layer) is a length
\* between 0 and get_seq_length(layer); on a SinkCache and for new_seq_length
\* above window_length it is window_length - new_seq_length, a negative number.
C30_UsableLengthBounds ==
    kind \in {"DynamicCache", "SinkCache"} =>
        \A layer_idx \in LayerIdx, new_seq_length \in 0 .. window_length + 2 :
            LET r == GetUsableLengthCall(Self, kind, new_seq_length, layer_idx)
            IN  /\ r.raised = ""
                /\ IF kind = "SinkCache" /\ new_seq_length > window_length
                   THEN r.out = window_length - new_seq_length
                   ELSE /\ 0 <= r.out
                        /\ r.out <= GetSeqLengthCall(Self, kind, layer_idx).out

\* get_usable_length(window_length, layer) has answered 0 on a SinkCache whose
\* layer holds tokens.
C30_Witness ==
    /\ kind = "SinkCache"
    /\ ret.op = "get_usable_length" /\ ret.raised = ""
    /\ ret.n = window_length
    /\ ret.out = 0
    /\ ListLen(ret.layer_idx) >= num_sink_tokens + 1

\* C30: on a DynamicCache and on a SinkCache, in every state, for every
\* new_seq_length >= 0 and every layer, get_usable_length(new_seq_length,
\* layer) is a length between 0 and get_seq_length(layer).
C30_Original ==
    kind \in {"DynamicCache", "SinkCache"} =>
        \A layer_idx \in LayerIdx, new_seq_length \in 0 .. window_length + 1 :
            LET r == GetUsableLengthCall(Self, kind, new_seq_length, layer_idx)
            IN  /\ r.raised = ""
                /\ 0 <= r.out
                /\ r.out <= GetSeqLengthCall(Self, kind, layer_idx).out

====
